---------------------------- MODULE Spec2Model ----------------------------
(***************************************************************************)
(* A model of course-finder.py: the "Search Courses" handler of the UMD    *)
(* Course Finder.  One search is a single sequential thread; its position  *)
(* is pc, and every HTTP request is one step whose response the catalog    *)
(* API chooses.                                                            *)
(*                                                                         *)
(* Text is a sequence of one-character strings (<<"C","M","S","C">>), so   *)
(* that len(), strip(), upper(), lower(), `in` and join() are computed.    *)
(* The empty text <<>> is Python's falsy "".                               *)
(***************************************************************************)
EXTENDS Integers, Sequences, FiniteSets, TLC

VARIABLES
    professor,          \* sidebar: professor name text
    course_or_dept,     \* sidebar: department or course id(s) text
    gened,              \* sidebar: GenEd text
    filter_by_semester, \* sidebar: "Filter by semester" checkbox
    semester,           \* selected semester code, <<>> when none
    open_only,          \* sidebar: "Only show courses with open seats"
    pc,                 \* position of the search
    url,                \* the course-fetch URL under construction / last built
    requests,           \* every request issued by this search, in order
    course_ids,         \* professor search: collected course ids
    all_courses,        \* professor search: the fallback department listing
    scan,               \* professor search: courses of all_courses scanned
    fetched,            \* what fetch_courses returned for url
    courses,            \* courses[:10]
    idx,                \* aggregation loop: courses processed
    section_data,       \* aggregation loop: section_data of the last course
    seats_open,         \* aggregation loop: seats_open of the last course
    profs,              \* aggregation loop: profs of the last course
    secKind,            \* outcome of the last sections request
    profKind,           \* outcome of the last professors?course_id request
    lookupKind,         \* the professors?name= request: "failed", "malformed", "ok"
    fallbackKind,       \* the fallback's listing request: "failed" or "ok"
    taught_ids,         \* course ids found in the "taught" lists
    gen_ed,             \* argument of the last flatten_geneds call
    geneds,             \* result of the last flatten_geneds call
    results,            \* the rows appended so far
    errorBanner,        \* st.error was called
    raised              \* the uncaught exception that ended the script, or "none"

vars == <<professor, course_or_dept, gened, filter_by_semester, semester,
          open_only, pc, url, requests, course_ids, all_courses, scan,
          fetched, courses, idx, section_data, seats_open, profs, secKind,
          profKind, lookupKind, fallbackKind, taught_ids, gen_ed, geneds, results,
          errorBanner, raised>>

inputVars == <<professor, course_or_dept, gened, filter_by_semester,
               semester, open_only>>

-----------------------------------------------------------------------------
(* Text helpers: Python's str methods on sequences of characters.          *)

Whitespace == {" "}

UpperOf == [c \in {"a", "b", "c", "f", "m", "s"} |->
               CASE c = "a" -> "A" [] c = "b" -> "B" [] c = "c" -> "C"
                 [] c = "f" -> "F" [] c = "m" -> "M" [] c = "s" -> "S"]

LowerOf == [c \in {"A", "B", "C", "F", "M", "S"} |->
               CASE c = "A" -> "a" [] c = "B" -> "b" [] c = "C" -> "c"
                 [] c = "F" -> "f" [] c = "M" -> "m" [] c = "S" -> "s"]

\* str.upper()
RECURSIVE Upper(_)
Upper(s) ==
    IF s = <<>> THEN <<>>
    ELSE <<IF Head(s) \in DOMAIN UpperOf THEN UpperOf[Head(s)] ELSE Head(s)>>
         \o Upper(Tail(s))

\* str.lower()
RECURSIVE Lower(_)
Lower(s) ==
    IF s = <<>> THEN <<>>
    ELSE <<IF Head(s) \in DOMAIN LowerOf THEN LowerOf[Head(s)] ELSE Head(s)>>
         \o Lower(Tail(s))

RECURSIVE LStrip(_)
LStrip(s) == IF s # <<>> /\ Head(s) \in Whitespace THEN LStrip(Tail(s)) ELSE s

RECURSIVE RStrip(_)
RStrip(s) ==
    IF s # <<>> /\ s[Len(s)] \in Whitespace
    THEN RStrip(SubSeq(s, 1, Len(s) - 1)) ELSE s

\* str.strip()
Strip(s) == RStrip(LStrip(s))

\* `sub in s` for two texts
Contains(s, sub) ==
    \E i \in 1..(Len(s) - Len(sub) + 1) : SubSeq(s, i, i + Len(sub) - 1) = sub

\* code points, for the order sorted() puts texts in
CharCode == [c \in {" ", ",", "/", "A", "B", "N", "a", "b"} |->
               CASE c = " " -> 32 [] c = "," -> 44 [] c = "/" -> 47
                 [] c = "A" -> 65 [] c = "B" -> 66 [] c = "N" -> 78
                 [] c = "a" -> 97 [] c = "b" -> 98]

RECURSIVE TextLess(_, _)
TextLess(a, b) ==
    IF b = <<>> THEN FALSE
    ELSE IF a = <<>> THEN TRUE
    ELSE IF Head(a) # Head(b) THEN CharCode[Head(a)] < CharCode[Head(b)]
    ELSE TextLess(Tail(a), Tail(b))

RECURSIVE InsertSorted(_, _)
InsertSorted(x, sorted) ==
    IF sorted = <<>> THEN <<x>>
    ELSE IF TextLess(x, Head(sorted)) THEN <<x>> \o sorted
    ELSE <<Head(sorted)>> \o InsertSorted(x, Tail(sorted))

\* sorted(list of texts): ascending, duplicates kept
RECURSIVE Sorted(_)
Sorted(xs) ==
    IF xs = <<>> THEN <<>>
    ELSE InsertSorted(xs[Len(xs)], Sorted(SubSeq(xs, 1, Len(xs) - 1)))

\* sep.join(list of texts)
RECURSIVE JoinWith(_, _)
JoinWith(sep, xs) ==
    IF xs = <<>> THEN <<>>
    ELSE IF Len(xs) = 1 THEN xs[1]
    ELSE xs[1] \o sep \o JoinWith(sep, Tail(xs))

\* xs[:n]
Take(xs, n) == SubSeq(xs, 1, IF Len(xs) < n THEN Len(xs) ELSE n)

-----------------------------------------------------------------------------
(* JSON values of a gen_ed field: a string, a list, or anything else.      *)

JStr(s) == [t |-> "str", s |-> s, items |-> <<>>]
JList(items) == [t |-> "list", s |-> <<>>, items |-> items]
JOther == [t |-> "other", s |-> <<>>, items |-> <<>>]

\* flatten_geneds with the recursion lost: a nested list gives only the
\* strings it holds itself
RECURSIVE flatten_geneds_OneLevel(_)
flatten_geneds_OneLevel(gs) ==
    IF gs = <<>> THEN <<>>
    ELSE LET g == Head(gs)
             rest == flatten_geneds_OneLevel(Tail(gs))
             own == SelectSeq(g.items, LAMBDA x : x.t = "str")
         IN  IF g.t = "list" THEN [i \in DOMAIN own |-> own[i].s] \o rest
             ELSE IF g.t = "str" THEN <<g.s>> \o rest
             ELSE rest

\* flatten_geneds(geneds), geneds a sequence of JSON values
RECURSIVE flatten_geneds(_)
flatten_geneds(gs) ==
    IF gs = <<>> THEN <<>>
    ELSE LET g == Head(gs)
             rest == flatten_geneds(Tail(gs))
         IN  IF g.t = "list" THEN flatten_geneds(g.items) \o rest
             ELSE IF g.t = "str" THEN <<g.s>> \o rest
             ELSE rest

-----------------------------------------------------------------------------
(* Program constants.                                                      *)

\* courses[:10] and course_ids[:10]
CourseCap == 10

\* len(user_input) > 4
DeptCodeLen == 4

\* per_page=100
PerPage == 100

\* dept = course_or_dept.strip().upper() or "CMSC"
DefaultDept == <<"C", "M", "S", "C">>

NotAvailable == <<"N", "/", "A">>

-----------------------------------------------------------------------------
(* Bounds of the model.                                                    *)

\* courses in one listing response
MaxListing == 1

\* characters in a department-or-course input of RouteSpec
MaxInputLen == 5

\* sections in one section list of SeatsSpec
MaxSections == 3

\* JSON values (strings, lists, others) inside one gen_ed list of FlattenSpec
MaxGenEdNodes == 5

-----------------------------------------------------------------------------
(* URLs.  A query parameter that the code does not append is <<>> (0 for   *)
(* per_page): the code never appends an empty gen_ed or semester.          *)

Url(kind, arg) ==
    [kind |-> kind, arg |-> arg, per_page |-> 0, gen_ed |-> <<>>, semester |-> <<>>]

NoUrl == Url("none", <<>>)

\* the semester appended to the listing URL only
WithSemester_ListingOnly(u, enabled, sem) ==
    IF enabled /\ sem # <<>> /\ u.kind = "listing" THEN [u EXCEPT !.semester = sem] ELSE u

\* if filter_by_semester and semester: url += "...semester={semester}"
WithSemester(u, enabled, sem) ==
    IF enabled /\ sem # <<>> THEN [u EXCEPT !.semester = sem] ELSE u

\* f"{BASE_URL}/courses?dept_id={dept}&per_page=100"
ListingUrl(dept) == [Url("listing", dept) EXCEPT !.per_page = PerPage]

\* the length test off by one
IsSpecific_OffByOne(user_input) == Len(user_input) >= DeptCodeLen

\* the test that sends CASE 2 to /courses/{user_input}
IsSpecific(user_input) == Len(user_input) > DeptCodeLen

\* CASE 2: the URL built from the sidebar inputs
CourseUrl(input, ge, enabled, sem) ==
    LET user_input == Upper(Strip(input))
    IN  IF IsSpecific(user_input)
        THEN WithSemester(Url("specific", user_input), enabled, sem)
        ELSE WithSemester(
                 IF ge # <<>>
                 THEN [ListingUrl(user_input) EXCEPT !.gen_ed = Upper(ge)]
                 ELSE ListingUrl(user_input),
                 enabled, sem)

-----------------------------------------------------------------------------
(* HTTP responses.  kind is "connfail" (requests.get raises                *)
(* ConnectionError), "status" (a status other than 200), "badjson" (200,   *)
(* .json() raises JSONDecodeError) or "ok" (200 with a JSON body).  A body *)
(* is [list |-> whether the JSON value is a list, items |-> its entries];  *)
(* a JSON object that is a single course is a body with list = FALSE and   *)
(* that course as its one item.                                            *)

FailureKinds == {"connfail", "status", "badjson"}

Response(kind, isList, items) == [kind |-> kind, list |-> isList, items |-> items]

Failures == {Response(k, TRUE, <<>>) : k \in FailureKinds}

\* the catalog's courses: course_id and gen_ed (name and credits are copied
\* into the row unchanged and are left out)
Course(id, ge) == [course_id |-> id, gen_ed |-> ge]

Catalog ==
    { Course(<<"C", "1">>, <<JStr(<<"F">>), JList(<<JStr(<<"D">>), JOther>>)>>),
      Course(<<"M", "2">>, <<>>) }

RECURSIVE SeqsOfLen(_, _)
SeqsOfLen(S, n) ==
    IF n = 0 THEN {<<>>} ELSE {Append(s, x) : s \in SeqsOfLen(S, n - 1), x \in S}

SeqsUpTo(S, n) == UNION {SeqsOfLen(S, k) : k \in 0..n}

CourseResponses ==
    Failures
    \cup {Response("ok", TRUE, cs) : cs \in SeqsUpTo(Catalog, MaxListing)}
    \cup {Response("ok", FALSE, <<c>>) : c \in Catalog}

\* fetch_courses(url), given the response to requests.get(url)
fetch_courses(resp) ==
    IF resp.kind = "ok"
    THEN [courses |-> IF resp.list THEN resp.items ELSE <<resp.items[1]>>,
          error |-> FALSE]
    ELSE [courses |-> <<>>, error |-> TRUE]

-----------------------------------------------------------------------------
(* Sections.  A section is a JSON value: not a dict, or a dict whose       *)
(* "seats" is missing, null, something else, or a dict whose "open" is     *)
(* missing, an integer n, a string, or null.                               *)

Section(isDict, seats, open, n) ==
    [dict |-> isDict, seats |-> seats, open |-> open, n |-> n]

NonDictSection == Section(FALSE, "missing", "missing", 0)
NoSeats == Section(TRUE, "missing", "missing", 0)
SeatsNull == Section(TRUE, "null", "missing", 0)
SeatsOther == Section(TRUE, "other", "missing", 0)
OpenMissing == Section(TRUE, "dict", "missing", 0)
OpenInt(n) == Section(TRUE, "dict", "int", n)
OpenStr == Section(TRUE, "dict", "str", 0)
OpenNull == Section(TRUE, "dict", "null", 0)

OpenCounts == {0, 1, 3}

Sections ==
    {NonDictSection, NoSeats, SeatsNull, SeatsOther, OpenMissing, OpenStr, OpenNull}
    \cup {OpenInt(n) : n \in OpenCounts}

\* seats.get("open", 0): the value added to seats_open, or the TypeError of
\* adding a str or None to an int
OpenOf(s) ==
    IF s.open = "missing" THEN [raised |-> "none", n |-> 0]
    ELSE IF s.open = "int" THEN [raised |-> "none", n |-> s.n]
    ELSE [raised |-> "TypeError", n |-> 0]

\* the loop over section_data: the total, or the exception that ends it
RECURSIVE SumOpen(_, _)
SumOpen(items, acc) ==
    IF items = <<>> THEN [raised |-> "none", total |-> acc]
    ELSE LET s == Head(items)
         IN  IF s.dict /\ s.seats = "dict"
             THEN LET o == OpenOf(s)
                  IN  IF o.raised # "none"
                      THEN [raised |-> o.raised, total |-> acc]
                      ELSE SumOpen(Tail(items), acc + o.n)
             ELSE SumOpen(Tail(items), acc)

\* seats_open for one section_data value (a list or not)
SeatsOpen(data) ==
    IF data.list THEN SumOpen(data.items, 0) ELSE [raised |-> "none", total |-> 0]

SectionData(isList, items) == [list |-> isList, items |-> items]

\* the sections request: section_data, or the exception the try lets through
SectionFetch(resp) ==
    IF resp.kind = "connfail" THEN [raised |-> "ConnectionError", data |-> SectionData(TRUE, <<>>)]
    ELSE IF resp.kind = "ok" THEN [raised |-> "none", data |-> SectionData(resp.list, resp.items)]
    ELSE [raised |-> "none", data |-> SectionData(TRUE, <<>>)]

SectionResponses ==
    Failures
    \cup {Response("ok", TRUE, items) :
            items \in {<<>>, <<OpenInt(3), OpenInt(0), SeatsNull>>, <<OpenInt(1), OpenStr>>}}

-----------------------------------------------------------------------------
(* Professors.  An entry of a professors response is a dict with a name    *)
(* (or without one) and a "taught" list of course ids, or not a dict.      *)

Prof(isDict, hasName, name, taught) ==
    [dict |-> isDict, hasName |-> hasName, name |-> name, taught |-> taught]

\* p.get("name", "")
NameOf(p) == IF p.hasName THEN p.name ELSE <<>>

\* profs = [p.get("name", "") for p in profs_data if isinstance(p, dict)]
RECURSIVE ProfNames(_)
ProfNames(items) ==
    IF items = <<>> THEN <<>>
    ELSE IF Head(items).dict THEN <<NameOf(Head(items))>> \o ProfNames(Tail(items))
    ELSE ProfNames(Tail(items))

\* the professors?course_id= request of the aggregation loop, everything
\* inside try / except Exception
ProfFetch(resp) ==
    IF resp.kind = "ok" /\ resp.list THEN ProfNames(resp.items) ELSE <<>>

\* ", ".join(sorted(profs)) if profs else "N/A"
ProfessorsField(ps) ==
    IF ps # <<>> THEN JoinWith(<<",", " ">>, Sorted(ps)) ELSE NotAvailable

ProfB == Prof(TRUE, TRUE, <<"B">>, <<>>)
ProfAb == Prof(TRUE, TRUE, <<"A", "b">>, <<>>)
NonDictProf == Prof(FALSE, FALSE, <<>>, <<>>)

\* responses to professors?course_id=
ProfResponses ==
    Failures
    \cup {Response("ok", TRUE, items) :
            items \in {<<>>, <<ProfB, ProfAb, ProfB>>, <<NonDictProf>>}}
    \cup {Response("ok", FALSE, <<>>)}

Teaches(ids) == Prof(TRUE, TRUE, <<"A", "b">>, ids)

\* responses to professors?name=
LookupResponses ==
    Failures
    \cup {Response("ok", TRUE, items) :
            items \in {<<>>, <<Teaches(<<>>)>>, <<Teaches(<<<<"C", "1">>>>)>>,
                       <<Teaches(<<<<"C", "1">>, <<"M", "2">>>>), Teaches(<<<<"C", "1">>>>)>>,
                       <<NonDictProf>>}}
    \cup {Response("ok", FALSE, <<>>)}

\* lines 100-106: the ids of every "taught" list, or the AttributeError of
\* p.get on an entry that is not a dict (a JSON object body iterates its keys)
RECURSIVE TaughtIds(_)
TaughtIds(items) ==
    IF items = <<>> THEN [raised |-> "none", ids |-> <<>>]
    ELSE IF ~Head(items).dict THEN [raised |-> "AttributeError", ids |-> <<>>]
    ELSE LET rest == TaughtIds(Tail(items))
         IN  [raised |-> rest.raised, ids |-> Head(items).taught \o rest.ids]

\* lines 120-123: course_id appended once per professor whose name matches,
\* or the AttributeError of p.get on an entry that is not a dict
RECURSIVE Matches(_, _, _)
Matches(items, name, course_id) ==
    IF items = <<>> THEN [raised |-> "none", ids |-> <<>>]
    ELSE IF ~Head(items).dict THEN [raised |-> "AttributeError", ids |-> <<>>]
    ELSE LET rest == Matches(Tail(items), name, course_id)
             hit == Contains(Lower(NameOf(Head(items))), Lower(name))
         IN  [raised |-> rest.raised,
              ids |-> (IF hit THEN <<course_id>> ELSE <<>>) \o rest.ids]

\* the orders list(set(course_ids)) can come in
Range(s) == {s[i] : i \in DOMAIN s}

SetOrders(s) ==
    {o \in SeqsUpTo(Range(s), Cardinality(Range(s))) :
        Len(o) = Cardinality(Range(s)) /\ Range(o) = Range(s)}

-----------------------------------------------------------------------------
(* The sidebar.                                                            *)

ProfessorInputs == {<<>>, <<"a">>}

DeptInputs == {<<>>, <<" ">>, <<"c", "m", "s", "c">>, <<" ", "C", "M", "S", "C", "2">>}

FallbackDeptInputs == {<<" ">>, <<"c", "m", "s", "c">>}

GenEdInputs == {<<>>, <<"f", "s">>}

\* valid_semesters, when fetch_semesters returned any
Semesters == {<<"2", "0", "2", "5", "0", "8">>}

\* what the script holds before the button is pressed
Fresh ==
    /\ url = NoUrl
    /\ requests = <<>>
    /\ course_ids = <<>>
    /\ all_courses = <<>>
    /\ scan = 0
    /\ fetched = <<>>
    /\ courses = <<>>
    /\ idx = 0
    /\ section_data = SectionData(TRUE, <<>>)
    /\ seats_open = 0
    /\ profs = <<>>
    /\ secKind = "none"
    /\ profKind = "none"
    /\ lookupKind = "none"
    /\ fallbackKind = "none"
    /\ taught_ids = <<>>
    /\ gen_ed = <<>>
    /\ geneds = <<>>
    /\ results = <<>>
    /\ errorBanner = FALSE
    /\ raised = "none"

\* lines 53-69: semester is set only under the checkbox.  A professor search
\* never reads gened, and reads course_or_dept only for the fallback's dept_id.
Init ==
    /\ professor \in ProfessorInputs
    /\ course_or_dept \in (IF professor = <<>> THEN DeptInputs ELSE FallbackDeptInputs)
    /\ gened \in (IF professor = <<>> THEN GenEdInputs ELSE {<<>>})
    /\ filter_by_semester \in BOOLEAN
    /\ semester \in (IF filter_by_semester THEN Semesters \cup {<<>>} ELSE {<<>>})
    /\ open_only \in BOOLEAN
    /\ pc = "start"
    /\ Fresh

-----------------------------------------------------------------------------
(* The search.                                                             *)

Abort(exception) ==
    /\ pc' = "aborted"
    /\ raised' = exception

\* lines 90-106 and the tests of lines 109 and 125
ProfessorLookup ==
    /\ pc = "start"
    /\ professor # <<>>
    /\ \E resp \in LookupResponses :
         LET failed == resp.kind # "ok"
             \* a JSON object iterates its keys, which are strings
             found == IF failed THEN [raised |-> "none", ids |-> <<>>]
                      ELSE IF ~resp.list THEN [raised |-> "AttributeError", ids |-> <<>>]
                      ELSE TaughtIds(resp.items)
         IN  /\ requests' = Append(requests, Url("professors_by_name", professor))
             /\ lookupKind' = IF failed THEN "failed"
                              ELSE IF found.raised # "none" THEN "malformed" ELSE "ok"
             /\ errorBanner' = (errorBanner \/ failed)
             /\ IF found.raised # "none"
                THEN /\ Abort(found.raised)
                     /\ UNCHANGED <<course_ids, taught_ids>>
                ELSE /\ course_ids' = found.ids
                     /\ taught_ids' = found.ids
                     /\ pc' = IF found.ids = <<>> THEN "fallback" ELSE "resolve"
                     /\ UNCHANGED raised
    /\ UNCHANGED <<inputVars, url, all_courses, scan, fetched, courses, idx,
                   section_data, seats_open, profs, secKind, profKind,
                   fallbackKind, gen_ed, geneds, results>>

\* lines 109-112: the department listing of the fallback scan
FallbackListing ==
    /\ pc = "fallback"
    /\ LET stripped == Upper(Strip(course_or_dept))
           dept == IF stripped # <<>> THEN stripped ELSE DefaultDept
       IN  \E resp \in CourseResponses :
             LET r == fetch_courses(resp)
             IN  /\ url' = ListingUrl(dept)
                 /\ requests' = Append(requests, ListingUrl(dept))
                 /\ all_courses' = r.courses
                 /\ fallbackKind' = IF r.error THEN "failed" ELSE "ok"
                 /\ errorBanner' = (errorBanner \/ r.error)
                 /\ scan' = 0
                 /\ pc' = IF r.courses = <<>> THEN "resolve" ELSE "scan"
    /\ UNCHANGED <<inputVars, course_ids, fetched, courses, idx, section_data,
                   seats_open, profs, secKind, profKind, lookupKind, taught_ids,
                   gen_ed, geneds, results, raised>>

\* lines 113-123: one course of the fallback scan
FallbackScan ==
    /\ pc = "scan"
    /\ scan < Len(all_courses)
    /\ LET course_id == all_courses[scan + 1].course_id
       IN  \E resp \in ProfResponses :
             LET found ==
                   IF resp.kind = "connfail" THEN [raised |-> "ConnectionError", ids |-> <<>>]
                   ELSE IF resp.kind = "status" THEN [raised |-> "none", ids |-> <<>>]
                   ELSE IF resp.kind = "badjson" THEN [raised |-> "JSONDecodeError", ids |-> <<>>]
                   ELSE IF ~resp.list THEN [raised |-> "none", ids |-> <<>>]
                   ELSE Matches(resp.items, professor, course_id)
             IN  /\ requests' = Append(requests, Url("professors_by_course", course_id))
                 /\ IF found.raised # "none"
                    THEN /\ Abort(found.raised)
                         /\ UNCHANGED <<course_ids, scan>>
                    ELSE /\ course_ids' = course_ids \o found.ids
                         /\ scan' = scan + 1
                         /\ pc' = IF scan + 1 = Len(all_courses) THEN "resolve" ELSE "scan"
                         /\ UNCHANGED raised
    /\ UNCHANGED <<inputVars, url, all_courses, fetched, courses, idx,
                   section_data, seats_open, profs, secKind, profKind, lookupKind,
                   fallbackKind, taught_ids, gen_ed, geneds, results, errorBanner>>

\* the specific lookup issued without the test of line 125
ResolveCourses_AlwaysFetch ==
    /\ pc = "resolve"
    /\ \E order \in SetOrders(course_ids) :
         /\ course_ids' = order
         /\ url' = WithSemester(
                       Url("specific", JoinWith(<<",">>, Take(order, CourseCap))),
                       filter_by_semester, semester)
         /\ pc' = "fetch"
    /\ UNCHANGED <<inputVars, requests, all_courses, scan, fetched, courses, idx,
                   section_data, seats_open, profs, secKind, profKind, lookupKind,
                   fallbackKind, taught_ids, gen_ed, geneds, results, errorBanner,
                   raised>>

\* lines 125-130 and 132-133, with line 150 when nothing is fetched
ResolveCourses ==
    /\ pc = "resolve"
    /\ IF course_ids # <<>>
       THEN \E order \in SetOrders(course_ids) :
              /\ course_ids' = order
              /\ url' = WithSemester(
                            Url("specific", JoinWith(<<",">>, Take(order, CourseCap))),
                            filter_by_semester, semester)
              /\ pc' = "fetch"
              /\ UNCHANGED <<courses, idx>>
       ELSE /\ courses' = <<>>
            /\ idx' = 0
            /\ pc' = "aggregate"
            /\ UNCHANGED <<course_ids, url>>
    /\ UNCHANGED <<inputVars, requests, all_courses, scan, fetched, section_data,
                   seats_open, profs, secKind, profKind, lookupKind, fallbackKind, taught_ids,
                   gen_ed, geneds, results, errorBanner, raised>>

\* lines 136-147: CASE 2 builds the URL
BuildCourseUrl ==
    /\ pc = "start"
    /\ professor = <<>>
    /\ url' = CourseUrl(course_or_dept, gened, filter_by_semester, semester)
    /\ pc' = "fetch"
    /\ UNCHANGED <<inputVars, requests, course_ids, all_courses, scan, fetched,
                   courses, idx, section_data, seats_open, profs, secKind,
                   profKind, lookupKind, fallbackKind, taught_ids, gen_ed, geneds, results,
                   errorBanner, raised>>

\* lines 131 and 148 (fetch_courses, lines 72-82), then lines 150-154
FetchCourses ==
    /\ pc = "fetch"
    /\ \E resp \in CourseResponses :
         LET r == fetch_courses(resp)
         IN  /\ requests' = Append(requests, url)
             /\ fetched' = r.courses
             /\ courses' = Take(r.courses, CourseCap)
             /\ errorBanner' = (errorBanner \/ r.error)
    /\ idx' = 0
    /\ pc' = "aggregate"
    /\ UNCHANGED <<inputVars, url, course_ids, all_courses, scan, section_data,
                   seats_open, profs, secKind, profKind, lookupKind, fallbackKind, taught_ids,
                   gen_ed, geneds, results, raised>>

\* the row of lines 188-195 (Name and Credits are copied and left out)
Row(c, ge, ps, seats) ==
    [CourseID |-> c.course_id,
     GenEd |-> JoinWith(<<",", " ">>, ge),
     Professors |-> ProfessorsField(ps),
     SeatsOpen |-> seats]

\* the filter applied whether or not the toggle is on
Emit_IgnoresToggle(rows, only_open, c, ge, ps, seats) ==
    IF seats = 0 THEN rows ELSE Append(rows, Row(c, ge, ps, seats))

\* lines 183-195: the filter, then the row
Emit(rows, only_open, c, ge, ps, seats) ==
    IF only_open /\ seats = 0 THEN rows ELSE Append(rows, Row(c, ge, ps, seats))

\* lines 156-201: one course of the aggregation loop
AggregateCourse ==
    /\ pc = "aggregate"
    /\ idx < Len(courses)
    /\ LET c == courses[idx + 1]
       IN  \E sresp \in SectionResponses, presp \in ProfResponses :
             LET sec == SectionFetch(sresp)
                 sum == SeatsOpen(sec.data)
                 exception == IF sec.raised # "none" THEN sec.raised ELSE sum.raised
                 names == ProfFetch(presp)
                 skipped == open_only /\ sum.total = 0
             IN  /\ secKind' = sresp.kind
                 /\ section_data' = IF sec.raised # "none" THEN section_data ELSE sec.data
                 /\ IF exception # "none"
                    THEN \* the script ends before line 172: no professors request
                         /\ requests' = Append(requests, Url("sections", c.course_id))
                         /\ seats_open' = IF sec.raised # "none" THEN 0 ELSE sum.total
                         /\ profKind' = "none"
                         /\ UNCHANGED profs
                         /\ Abort(exception)
                         /\ UNCHANGED <<idx, gen_ed, geneds, results>>
                    ELSE /\ requests' = requests \o <<Url("sections", c.course_id),
                                                      Url("professors_by_course", c.course_id)>>
                         /\ seats_open' = sum.total
                         /\ profKind' = presp.kind
                         /\ profs' = names
                         /\ gen_ed' = IF skipped THEN gen_ed ELSE c.gen_ed
                         /\ geneds' = IF skipped THEN geneds ELSE flatten_geneds(c.gen_ed)
                         /\ results' = Emit(results, open_only, c, flatten_geneds(c.gen_ed),
                                            names, sum.total)
                         /\ idx' = idx + 1
                         /\ UNCHANGED <<pc, raised>>
    /\ UNCHANGED <<inputVars, url, course_ids, all_courses, scan, fetched, courses,
                   lookupKind, fallbackKind, taught_ids, errorBanner>>

\* lines 203-207: the table, or the "No courses found" warning
Render ==
    /\ pc = "aggregate"
    /\ idx = Len(courses)
    /\ pc' = "done"
    /\ UNCHANGED <<inputVars, url, requests, course_ids, all_courses, scan,
                   fetched, courses, idx, section_data, seats_open, profs, secKind,
                   profKind, lookupKind, fallbackKind, taught_ids, gen_ed, geneds, results,
                   errorBanner, raised>>

Next ==
    \/ ProfessorLookup
    \/ FallbackListing
    \/ FallbackScan
    \/ ResolveCourses
    \/ BuildCourseUrl
    \/ FetchCourses
    \/ AggregateCourse
    \/ Render

Spec == Init /\ [][Next]_vars

-----------------------------------------------------------------------------
(* CASE 2's URL for every department-or-course input up to MaxInputLen.    *)

\* a lower-case letter, an upper-case letter, a digit, a comma, a blank
RouteAlphabet == {"c", "M", "2", ",", " "}

RouteInit ==
    /\ professor = <<>>
    /\ course_or_dept \in SeqsUpTo(RouteAlphabet, MaxInputLen)
    /\ gened \in GenEdInputs
    /\ filter_by_semester = FALSE
    /\ semester = <<>>
    /\ open_only = FALSE
    /\ pc = "start"
    /\ Fresh

RouteNext == BuildCourseUrl

RouteSpec == RouteInit /\ [][RouteNext]_vars

-----------------------------------------------------------------------------
(* The seat total of every section list up to MaxSections.                 *)

SeatsInit ==
    /\ professor = <<>>
    /\ course_or_dept = DefaultDept
    /\ gened = <<>>
    /\ filter_by_semester = FALSE
    /\ semester = <<>>
    /\ open_only = FALSE
    /\ pc = "sections"
    /\ url = NoUrl
    /\ requests = <<>>
    /\ course_ids = <<>>
    /\ all_courses = <<>>
    /\ scan = 0
    /\ fetched = <<>>
    /\ courses = <<>>
    /\ idx = 0
    /\ section_data \in {SectionData(TRUE, items) : items \in SeqsUpTo(Sections, MaxSections)}
                        \cup {SectionData(FALSE, <<>>)}
    /\ seats_open = 0
    /\ profs = <<>>
    /\ secKind = "ok"
    /\ profKind = "none"
    /\ lookupKind = "none"
    /\ fallbackKind = "none"
    /\ taught_ids = <<>>
    /\ gen_ed = <<>>
    /\ geneds = <<>>
    /\ results = <<>>
    /\ errorBanner = FALSE
    /\ raised = "none"

\* lines 165-170: seats_open accumulated over section_data
AccumulateSeats ==
    /\ pc = "sections"
    /\ LET sum == SeatsOpen(section_data)
       IN  /\ seats_open' = sum.total
           /\ IF sum.raised # "none"
              THEN Abort(sum.raised)
              ELSE /\ pc' = "professors"
                   /\ UNCHANGED raised
    /\ UNCHANGED <<inputVars, url, requests, course_ids, all_courses, scan,
                   fetched, courses, idx, section_data, profs, secKind, profKind,
                   lookupKind, fallbackKind, taught_ids, gen_ed, geneds, results,
                   errorBanner>>

SeatsNext == AccumulateSeats

SeatsSpec == SeatsInit /\ [][SeatsNext]_vars

-----------------------------------------------------------------------------
(* flatten_geneds on every gen_ed list of up to MaxGenEdNodes JSON values. *)

GenEdTags == {<<"F">>, <<"D">>}

GenEdAtoms == {JStr(tag) : tag \in GenEdTags} \cup {JOther}

\* the JSON lists (ListsOfSize) and values (ValuesOfSize) made of exactly n
\* strings, lists and other values
ListsOfSize[n \in Nat] ==
    IF n = 0 THEN {<<>>}
    ELSE UNION {{<<v>> \o rest :
                    v \in (IF k = 1 THEN GenEdAtoms ELSE {})
                           \cup {JList(items) : items \in ListsOfSize[k - 1]},
                    rest \in ListsOfSize[n - k]} :
                  k \in 1..n}

GenEdLists(max) == UNION {ListsOfSize[n] : n \in 0..max}

FlattenInit ==
    /\ professor = <<>>
    /\ course_or_dept = DefaultDept
    /\ gened = <<>>
    /\ filter_by_semester = FALSE
    /\ semester = <<>>
    /\ open_only = FALSE
    /\ pc = "flatten"
    /\ url = NoUrl
    /\ requests = <<>>
    /\ course_ids = <<>>
    /\ all_courses = <<>>
    /\ scan = 0
    /\ fetched = <<>>
    /\ courses = <<>>
    /\ idx = 0
    /\ section_data = SectionData(TRUE, <<>>)
    /\ seats_open = 0
    /\ profs = <<>>
    /\ secKind = "ok"
    /\ profKind = "ok"
    /\ lookupKind = "none"
    /\ fallbackKind = "none"
    /\ taught_ids = <<>>
    /\ gen_ed \in GenEdLists(MaxGenEdNodes)
    /\ geneds = <<>>
    /\ results = <<>>
    /\ errorBanner = FALSE
    /\ raised = "none"

\* line 186: geneds = flatten_geneds(c.get("gen_ed", []))
FlattenGenEds ==
    /\ pc = "flatten"
    /\ geneds' = flatten_geneds(gen_ed)
    /\ pc' = "flattened"
    /\ UNCHANGED <<inputVars, url, requests, course_ids, all_courses, scan,
                   fetched, courses, idx, section_data, seats_open, profs, secKind,
                   profKind, lookupKind, fallbackKind, taught_ids, gen_ed, results,
                   errorBanner, raised>>

FlattenNext == FlattenGenEds

FlattenSpec == FlattenInit /\ [][FlattenNext]_vars

-----------------------------------------------------------------------------
(* Properties.                                                             *)

Ended == pc \in {"done", "aborted"}

RECURSIVE CourseIdsOf(_)
CourseIdsOf(cs) ==
    IF cs = <<>> THEN <<>> ELSE <<Head(cs).course_id>> \o CourseIdsOf(Tail(cs))

RECURSIVE RowIdsOf(_)
RowIdsOf(rows) ==
    IF rows = <<>> THEN <<>> ELSE <<Head(rows).CourseID>> \o RowIdsOf(Tail(rows))

\* a is b with some entries left out, the order kept
RECURSIVE IsSubsequence(_, _)
IsSubsequence(a, b) ==
    IF a = <<>> THEN TRUE
    ELSE IF b = <<>> THEN FALSE
    ELSE IF Head(a) = Head(b) THEN IsSubsequence(Tail(a), Tail(b))
    ELSE IsSubsequence(a, Tail(b))

\* C1: during aggregation no failure of a course's sections request or of its
\* professors request (connection failure, non-200 status, unparseable body)
\* aborts the search: the course gets 0 open seats, or no professors, and the
\* loop goes on to the render step.
C1_AggregationFailuresDegrade ==
    /\ secKind \in FailureKinds => (pc # "aborted" /\ seats_open = 0)
    /\ profKind \in FailureKinds => (pc # "aborted" /\ profs = <<>>)

\* the length of s without its leading and trailing blanks
TrimmedLen(s) ==
    LET inked == {i \in DOMAIN s : s[i] # " "}
    IN  IF inked = {} THEN 0
        ELSE (CHOOSE i \in inked : \A j \in inked : j <= i)
             - (CHOOSE i \in inked : \A j \in inked : i <= j) + 1

HasComma(s) == \E i \in DOMAIN s : s[i] = ","

IsLetter(c) == c \in DOMAIN UpperOf \cup DOMAIN LowerOf

\* one token (no comma, no blank inside) that starts with a letter
IsAlphaToken(s) ==
    LET t == Strip(s)
    IN  /\ t # <<>>
        /\ IsLetter(t[1])
        /\ \A i \in DOMAIN t : t[i] \notin {",", " "}

\* C2 as claimed: with the professor field empty, an input that contains a
\* comma, or is a single alphabetic-prefixed token longer than 4 characters,
\* goes to /courses/{ids}, and a short department code goes to
\* /courses?dept_id=, for every input string.
C2_CommaOrLongTokenIsSpecific ==
    pc = "fetch" =>
        /\ (HasComma(course_or_dept) \/ (IsAlphaToken(course_or_dept) /\ TrimmedLen(course_or_dept) > 4))
              => url.kind = "specific"
        /\ (IsAlphaToken(course_or_dept) /\ TrimmedLen(course_or_dept) <= 4)
              => url.kind = "listing"

\* C2 as amended: with the professor field empty, the input goes to
\* /courses/{ids} exactly when it has more than 4 characters between its
\* leading and trailing blanks, comma or not, and to /courses?dept_id=
\* otherwise.
C2_LongerThanFourIsSpecific ==
    pc = "fetch" =>
        /\ url.kind \in {"specific", "listing"}
        /\ url.kind = "specific" <=> TrimmedLen(course_or_dept) > 4

\* a comma-joined input of 3 characters is sent to the department listing
C2_ShortCommaInputListed ==
    /\ pc = "fetch"
    /\ course_or_dept = <<"c", ",", "M">>
    /\ url.kind = "listing"
    /\ url.arg = <<"C", ",", "M">>

WellFormedOpen(s) == IF s.dict /\ s.seats = "dict" /\ s.open = "int" THEN s.n ELSE 0

RECURSIVE SumWellFormed(_)
SumWellFormed(items) ==
    IF items = <<>> THEN 0 ELSE WellFormedOpen(Head(items)) + SumWellFormed(Tail(items))

\* C3: for every section list the open-seat total is the sum of the integer
\* "open" counts of the well-formed sections; every missing or malformed entry
\* (a section that is not a dict, seats missing, null or not a dict, "open"
\* missing or not an integer) adds 0, and the accumulation never raises.
C3_TotalIsSumOfWellFormed ==
    pc # "sections" =>
        /\ raised = "none"
        /\ seats_open = IF section_data.list THEN SumWellFormed(section_data.items) ELSE 0

\* C4: in a department search (professor empty, a department code given, no
\* semester) the listing endpoint is requested exactly once and the table has
\* one row per course of the first 10 courses of the response, in the order
\* of the listing; with "open seats only" the rows are an order-preserving
\* subsequence of those 10.
C4_DepartmentSearchRows ==
    (/\ Ended
     /\ professor = <<>>
     /\ Strip(course_or_dept) # <<>>
     /\ url.kind = "listing"
     /\ semester = <<>>)
    => /\ Cardinality({i \in DOMAIN requests : requests[i].kind = "listing"}) = 1
       /\ Len(results) <= CourseCap
       /\ IF open_only
          THEN IsSubsequence(RowIdsOf(results), CourseIdsOf(Take(fetched, CourseCap)))
          ELSE RowIdsOf(results) = CourseIdsOf(Take(fetched, CourseCap))

\* C5: a course whose open-seat total is 0 gets no row when "only open seats"
\* is on and gets a row when it is off; a course whose total is above 0 gets
\* a row either way.  Stated of every step that finishes a course.
C5_OpenOnlyFilter ==
    [][(pc = "aggregate" /\ idx' = idx + 1) =>
          IF open_only /\ seats_open' = 0
          THEN results' = results
          ELSE /\ Len(results') = Len(results) + 1
               /\ SubSeq(results', 1, Len(results)) = results
               /\ results'[Len(results')].CourseID = courses[idx'].course_id
               /\ results'[Len(results')].SeatsOpen = seats_open']_vars

\* with the toggle on, a course whose sections hold no open seat has been
\* processed and has no row
C5_ZeroSeatCourseDropped ==
    /\ pc = "done"
    /\ open_only
    /\ idx = Len(courses)
    /\ idx >= 1
    /\ secKind = "ok"
    /\ seats_open = 0
    /\ results = <<>>

\* C6: a search with an empty professor field and an empty or whitespace-only
\* department-or-course field ends with no rows and no error banner, whatever
\* the catalog API answers.
C6_EmptyInputsGiveNothing ==
    (Ended /\ professor = <<>> /\ Strip(course_or_dept) = <<>>)
    => (results = <<>> /\ ~errorBanner)

RECURSIVE AscendingOnce(_)
AscendingOnce(S) ==
    IF S = {} THEN <<>>
    ELSE LET least == CHOOSE x \in S : \A y \in S \ {x} : TextLess(x, y)
         IN  <<least>> \o AscendingOnce(S \ {least})

\* C8: every row's professor field is the de-duplicated, sorted, comma-joined
\* list of the professor names returned for the course, and is "N/A" exactly
\* when that list is empty.
C8_ProfessorsDistinctSorted ==
    (pc \in {"aggregate", "done"} /\ idx >= 1 /\ ~(open_only /\ seats_open = 0))
    => results[Len(results)].Professors =
          IF profs = <<>> THEN NotAvailable
          ELSE JoinWith(<<",", " ">>, AscendingOnce(Range(profs)))

CourseFetches == {i \in DOMAIN requests : requests[i].kind \in {"listing", "specific"}}

SemesterSelected == filter_by_semester /\ semester # <<>>

\* C9 as claimed: in every search path a course-fetch URL carries a semester
\* parameter if and only if the checkbox is on and a semester is selected;
\* with the checkbox off no request of the search carries one.
C9_SemesterIffSelected ==
    /\ \A i \in CourseFetches : requests[i].semester # <<>> <=> SemesterSelected
    /\ ~filter_by_semester => \A i \in DOMAIN requests : requests[i].semester = <<>>

\* C9 as amended: a request carries a semester parameter only if the checkbox
\* is on and a semester is selected, and then it is the selected semester on
\* a course fetch; the URL that fetches the courses to display (specific
\* lookup, or CASE 2's listing) carries it if and only if so; the department
\* listing of the professor search's fallback scan never carries it.
C9_SemesterOnDisplayedFetch ==
    /\ \A i \in DOMAIN requests :
          requests[i].semester # <<>> =>
             (SemesterSelected /\ requests[i].semester = semester /\ i \in CourseFetches)
    /\ \A i \in CourseFetches :
          IF professor # <<>> /\ requests[i].kind = "listing"
          THEN requests[i].semester = <<>>
          ELSE requests[i].semester # <<>> <=> SemesterSelected

\* a professor search with a semester selected: the fallback listing went out
\* without it, the specific lookup with it
C9_FallbackListingUnfiltered ==
    /\ professor # <<>>
    /\ SemesterSelected
    /\ \E i, j \in DOMAIN requests :
          /\ requests[i].kind = "listing"
          /\ requests[i].semester = <<>>
          /\ requests[j].kind = "specific"
          /\ requests[j].semester = semester

\* the positions of the values inside a gen_ed list, as index paths
RECURSIVE PathsOf(_)
PathsOf(gs) ==
    UNION {{<<i>>} \cup {<<i>> \o p : p \in PathsOf(gs[i].items)} : i \in DOMAIN gs}

RECURSIVE ValueAt(_, _)
ValueAt(gs, p) ==
    IF Len(p) = 1 THEN gs[p[1]] ELSE ValueAt(gs[p[1]].items, Tail(p))

\* p comes before q reading left to right
RECURSIVE PathBefore(_, _)
PathBefore(p, q) ==
    IF p = <<>> \/ q = <<>> THEN FALSE
    ELSE IF Head(p) # Head(q) THEN Head(p) < Head(q)
    ELSE PathBefore(Tail(p), Tail(q))

StringPaths(gs) == {p \in PathsOf(gs) : ValueAt(gs, p).t = "str"}

\* C10: flatten_geneds of a list nested to any depth is the flat sequence of
\* all its string entries in left-to-right depth-first order; every entry
\* that is neither a string nor a list is dropped.
C10_FlattenLeftToRight ==
    pc = "flattened" =>
        LET at == StringPaths(gen_ed)
        IN  /\ Len(geneds) = Cardinality(at)
            /\ \A p \in at :
                  geneds[1 + Cardinality({q \in at : PathBefore(q, p)})] = ValueAt(gen_ed, p).s

\* ["F", [other, ["D"]]] flattened to ["F", "D"]
C10_NestedFlattened ==
    /\ pc = "flattened"
    /\ gen_ed = <<JStr(<<"F">>), JList(<<JOther, JList(<<JStr(<<"D">>)>>)>>)>>
    /\ geneds = <<<<"F">>, <<"D">>>>

=============================================================================
